---------------------------- MODULE Spec2Model ----------------------------
(***************************************************************************)
(* WealthLens: the AI analysis orchestration layer of src/services/        *)
(* gemini.ts (the second, multi-provider version, lines 226-530), and the  *)
(* App component of src/App.tsx that calls it.                             *)
(*                                                                         *)
(* Text is modelled as a sequence of one-character strings, so that        *)
(* trimming, fence stripping, brace slicing, URL normalisation and JSON    *)
(* parsing are computed character by character as the code computes them.  *)
(***************************************************************************)
EXTENDS Integers, Sequences, FiniteSets, TLC

(***************************************************************************)
(* Bounds of the model.                                                    *)
(***************************************************************************)
\* longest raw model output enumerated exhaustively over RawAlphabet
MaxRawLen == 3
\* longest riskAlerts / breakdown list of a generated AssetAnalysisResult
MaxList == 1
\* most screenshots handed to one invocation
MaxImages == 2
\* most pieces a base URL is put together from
MaxUrlParts == 4

(***************************************************************************)
(* Strings.                                                                *)
(***************************************************************************)
Min(S) == CHOOSE x \in S : \A y \in S : x <= y

Max(S) == CHOOSE x \in S : \A y \in S : x >= y

\* String.prototype.startsWith
StartsWith(s, p) == Len(s) >= Len(p) /\ SubSeq(s, 1, Len(p)) = p

\* String.prototype.endsWith
EndsWith(s, p) == Len(s) >= Len(p) /\ SubSeq(s, Len(s) - Len(p) + 1, Len(s)) = p

\* String.prototype.indexOf for a one-character needle; 0-based, -1 if absent
IndexOf(s, ch) ==
    LET hits == {i \in 1..Len(s) : s[i] = ch}
    IN  IF hits = {} THEN -1 ELSE Min(hits) - 1

\* String.prototype.lastIndexOf for a one-character needle; 0-based, -1 if absent
LastIndexOf(s, ch) ==
    LET hits == {i \in 1..Len(s) : s[i] = ch}
    IN  IF hits = {} THEN -1 ELSE Max(hits) - 1

Clamp(x, n) == IF x < 0 THEN 0 ELSE IF x > n THEN n ELSE x

\* String.prototype.substring(a, b): 0-based, end exclusive, arguments
\* clamped to [0, length] and swapped when a > b
Substring(s, a, b) ==
    LET ca == Clamp(a, Len(s))
        cb == Clamp(b, Len(s))
        lo == IF ca <= cb THEN ca ELSE cb
        hi == IF ca <= cb THEN cb ELSE ca
    IN  SubSeq(s, lo + 1, hi)

\* the white space of the modelled alphabet (matched by trim() and by \s)
WhiteSpace == {" ", "\n"}

\* number of leading white-space characters
LeadingWs(s) ==
    Min({i \in 0..Len(s) : i = Len(s) \/ s[i + 1] \notin WhiteSpace})

\* number of trailing white-space characters
TrailingWs(s) ==
    Min({i \in 0..Len(s) : i = Len(s) \/ s[Len(s) - i] \notin WhiteSpace})

\* String.prototype.trim
Trim(s) ==
    LET a == LeadingWs(s)
    IN  IF a = Len(s) THEN <<>> ELSE SubSeq(s, a + 1, Len(s) - TrailingWs(s))

\* the backtick character (a string literal cannot hold one)
Backtick == "BACKTICK"

Fence == <<Backtick, Backtick, Backtick>>

FenceJson == Fence \o <<"j", "s", "o", "n">>

\* s.replace(/^<prefix>\s*/, "") for a string that starts with the prefix
StripHead(s, prefix) ==
    LET rest == SubSeq(s, Len(prefix) + 1, Len(s))
    IN  SubSeq(rest, LeadingWs(rest) + 1, Len(rest))

\* s.replace(/\s*FENCE$/, ""): the closing fence at the very end and the
\* white space before it
StripTail(s) ==
    IF EndsWith(s, Fence)
    THEN LET body == SubSeq(s, 1, Len(s) - Len(Fence))
         IN  SubSeq(body, 1, Len(body) - TrailingWs(body))
    ELSE s

(***************************************************************************)
(* JSON values.  Every value is a record of the same shape, so that any    *)
(* two values can be compared: k is the kind, s the characters of a string *)
(* or the canonical digits of a number, n the member names of an object,   *)
(* c the member values of an object or the elements of an array.           *)
(***************************************************************************)
JStr(s) == [k |-> "string", s |-> s, n |-> <<>>, c |-> <<>>]

JNum(s) == [k |-> "number", s |-> s, n |-> <<>>, c |-> <<>>]

JLit(s) == [k |-> "literal", s |-> s, n |-> <<>>, c |-> <<>>]

JArr(elems) == [k |-> "array", s |-> <<>>, n |-> <<>>, c |-> elems]

JObj(names, vals) == [k |-> "object", s |-> <<>>, n |-> names, c |-> vals]

NoVal == [k |-> "none", s |-> <<>>, n |-> <<>>, c |-> <<>>]

(***************************************************************************)
(* JSON.parse, by recursive descent over the characters.  A parse returns  *)
(* [ok, v, i]: whether it succeeded, the value, and the 1-based position   *)
(* after it.  Exponents (1e5) and \uXXXX escapes are not modelled: no      *)
(* input of the model contains a digit followed by e/E or a \u escape.     *)
(* Members keep their order of first insertion (integer-like member        *)
(* names, which a JavaScript object lists first, are not reordered).       *)
(***************************************************************************)
Quote == "\""

Backslash == "\\"

Digits == {"0", "1", "2", "3", "4", "5", "6", "7", "8", "9"}

\* the white space JSON.parse skips between tokens
JsonWs == {" ", "\n", "\t", "\r"}

\* characters JSON.parse rejects unescaped inside a string
ControlChars == {"\n", "\t", "\r"}

\* the character each single-character escape stands for
Unescape ==
    (Quote :> Quote) @@ (Backslash :> Backslash) @@ ("/" :> "/") @@
    ("n" :> "\n") @@ ("t" :> "\t") @@ ("r" :> "\r")

Fail == [ok |-> FALSE, v |-> NoVal, i |-> 0]

Ok(v, i) == [ok |-> TRUE, v |-> v, i |-> i]

RECURSIVE SkipWs(_, _)
\* first position at or after i that holds no JSON white space
SkipWs(t, i) ==
    IF i > Len(t) \/ t[i] \notin JsonWs THEN i ELSE SkipWs(t, i + 1)

RECURSIVE DigitRun(_, _)
\* number of consecutive digits from position j
DigitRun(t, j) ==
    IF j > Len(t) \/ t[j] \notin Digits THEN 0 ELSE 1 + DigitRun(t, j + 1)

\* number of trailing "0" characters of a digit sequence
TrailingZeros(d) ==
    Min({n \in 0..Len(d) : n = Len(d) \/ d[Len(d) - n] # "0"})

\* the text JSON.stringify gives the number written as sign, int, frac
CanonNumber(neg, int, frac) ==
    LET f == SubSeq(frac, 1, Len(frac) - TrailingZeros(frac))
        zero == int = <<"0">> /\ f = <<>>
    IN  (IF neg /\ ~zero THEN <<"-">> ELSE <<>>) \o int \o
        (IF f = <<>> THEN <<>> ELSE <<".">> \o f)

ParseNumber(t, j) ==
    LET neg == t[j] = "-"
        a == IF neg THEN j + 1 ELSE j
    IN  IF a > Len(t) \/ t[a] \notin Digits THEN Fail
        ELSE LET ni == IF t[a] = "0" THEN 1 ELSE DigitRun(t, a)
                 b == a + ni
                 dot == b <= Len(t) /\ t[b] = "."
                 nf == IF dot THEN DigitRun(t, b + 1) ELSE 0
                 e == IF dot THEN b + 1 + nf ELSE b
             IN  IF dot /\ nf = 0 THEN Fail
                 ELSE IF e <= Len(t) /\ t[e] \in {"e", "E"} THEN Fail
                 ELSE Ok(JNum(CanonNumber(neg, SubSeq(t, a, b - 1),
                                          SubSeq(t, b + 1, b + nf))), e)

Literals == {<<"n", "u", "l", "l">>, <<"t", "r", "u", "e">>, <<"f", "a", "l", "s", "e">>}

ParseLiteral(t, j) ==
    LET hit == {l \in Literals : j + Len(l) - 1 <= Len(t) /\ SubSeq(t, j, j + Len(l) - 1) = l}
    IN  IF hit = {} THEN Fail
        ELSE LET l == CHOOSE x \in hit : TRUE IN Ok(JLit(l), j + Len(l))

\* an object's members after name := v (a repeated name keeps its place
\* and takes the later value)
PutMember(names, vals, name, v) ==
    LET at == {p \in 1..Len(names) : names[p] = name}
    IN  IF at = {} THEN JObj(Append(names, name), Append(vals, v))
        ELSE JObj(names, [vals EXCEPT ![CHOOSE p \in at : TRUE] = v])

RECURSIVE ParseChars(_, _, _)
\* the characters of a string from position k (after the opening quote)
ParseChars(t, k, acc) ==
    IF k > Len(t) THEN Fail
    ELSE IF t[k] = Quote THEN Ok(JStr(acc), k + 1)
    ELSE IF t[k] = Backslash
         THEN IF k + 1 <= Len(t) /\ t[k + 1] \in DOMAIN Unescape
              THEN ParseChars(t, k + 2, Append(acc, Unescape[t[k + 1]]))
              ELSE Fail
    ELSE IF t[k] \in ControlChars THEN Fail
    ELSE ParseChars(t, k + 1, Append(acc, t[k]))

RECURSIVE ParseValue(_, _), ParseMembers(_, _, _, _), ParseElems(_, _, _)
ParseValue(t, i) ==
    LET j == SkipWs(t, i)
    IN  IF j > Len(t) THEN Fail
        ELSE IF t[j] = "{"
             THEN LET k == SkipWs(t, j + 1)
                  IN  IF k <= Len(t) /\ t[k] = "}" THEN Ok(JObj(<<>>, <<>>), k + 1)
                      ELSE ParseMembers(t, k, <<>>, <<>>)
        ELSE IF t[j] = "["
             THEN LET k == SkipWs(t, j + 1)
                  IN  IF k <= Len(t) /\ t[k] = "]" THEN Ok(JArr(<<>>), k + 1)
                      ELSE ParseElems(t, k, <<>>)
        ELSE IF t[j] = Quote THEN ParseChars(t, j + 1, <<>>)
        ELSE IF t[j] \in Digits \cup {"-"} THEN ParseNumber(t, j)
        ELSE ParseLiteral(t, j)

\* the members of an object from position k, where a member name must start
ParseMembers(t, k, names, vals) ==
    IF k > Len(t) \/ t[k] # Quote THEN Fail
    ELSE LET key == ParseChars(t, k + 1, <<>>)
         IN  IF ~key.ok THEN Fail
             ELSE LET c == SkipWs(t, key.i)
                  IN  IF c > Len(t) \/ t[c] # ":" THEN Fail
                      ELSE LET val == ParseValue(t, c + 1)
                           IN  IF ~val.ok THEN Fail
                               ELSE LET e == SkipWs(t, val.i)
                                        obj == PutMember(names, vals, key.v.s, val.v)
                                    IN  IF e > Len(t) THEN Fail
                                        ELSE IF t[e] = "}" THEN Ok(obj, e + 1)
                                        ELSE IF t[e] = ","
                                             THEN ParseMembers(t, SkipWs(t, e + 1), obj.n, obj.c)
                                        ELSE Fail

\* the elements of an array from position k, where an element must start
ParseElems(t, k, elems) ==
    LET val == ParseValue(t, k)
    IN  IF ~val.ok THEN Fail
        ELSE LET e == SkipWs(t, val.i)
             IN  IF e > Len(t) THEN Fail
                 ELSE IF t[e] = "]" THEN Ok(JArr(Append(elems, val.v)), e + 1)
                 ELSE IF t[e] = "," THEN ParseElems(t, e + 1, Append(elems, val.v))
                 ELSE Fail

\* JSON.parse(t): [ok, v]; ok = FALSE stands for the SyntaxError it throws
JSONparse(t) ==
    LET r == ParseValue(t, 1)
    IN  IF r.ok /\ SkipWs(t, r.i) > Len(t) THEN [ok |-> TRUE, v |-> r.v]
        ELSE [ok |-> FALSE, v |-> NoVal]

(***************************************************************************)
(* JSON.stringify of a value (no indentation).                             *)
(***************************************************************************)
EscapeChar(ch) ==
    IF ch = Quote THEN <<Backslash, Quote>>
    ELSE IF ch = Backslash THEN <<Backslash, Backslash>>
    ELSE IF ch = "\n" THEN <<Backslash, "n">>
    ELSE IF ch = "\t" THEN <<Backslash, "t">>
    ELSE IF ch = "\r" THEN <<Backslash, "r">>
    ELSE <<ch>>

RECURSIVE Escape(_)
Escape(s) == IF s = <<>> THEN <<>> ELSE EscapeChar(Head(s)) \o Escape(Tail(s))

QuoteStr(s) == <<Quote>> \o Escape(s) \o <<Quote>>

RECURSIVE JSONstringify(_), StringifyElems(_), StringifyMembers(_, _)
JSONstringify(v) ==
    IF v.k = "string" THEN QuoteStr(v.s)
    ELSE IF v.k = "array" THEN <<"[">> \o StringifyElems(v.c) \o <<"]">>
    ELSE IF v.k = "object" THEN <<"{">> \o StringifyMembers(v.n, v.c) \o <<"}">>
    ELSE v.s

StringifyElems(c) ==
    IF c = <<>> THEN <<>>
    ELSE JSONstringify(Head(c)) \o
         (IF Len(c) = 1 THEN <<>> ELSE <<",">> \o StringifyElems(Tail(c)))

StringifyMembers(n, c) ==
    IF n = <<>> THEN <<>>
    ELSE QuoteStr(Head(n)) \o <<":">> \o JSONstringify(Head(c)) \o
         (IF Len(n) = 1 THEN <<>> ELSE <<",">> \o StringifyMembers(Tail(n), Tail(c)))

(***************************************************************************)
(* parseJSON (gemini.ts 271-289): clean and parse possibly messy model     *)
(* output.                                                                 *)
(***************************************************************************)
\* the fenced block taken with a non-greedy match: what stands between the
\* opening fence and the next fence marker, wherever that one is
StripFencesNonGreedy(text) ==
    LET t == Trim(text)
        body == IF StartsWith(t, FenceJson) THEN SubSeq(t, Len(FenceJson) + 1, Len(t))
                ELSE SubSeq(t, Len(Fence) + 1, Len(t))
        at == {i \in 1..(Len(body) - Len(Fence) + 1) : SubSeq(body, i, i + Len(Fence) - 1) = Fence}
    IN  IF StartsWith(t, Fence) /\ at # {}
        THEN Trim(SubSeq(body, 1, Min(at) - 1))
        ELSE t

\* lines 272-278: trim, then strip a leading fence (with or without json) and the
\* closing fence
StripFences(text) ==
    LET cleanText == Trim(text)
    IN  IF StartsWith(cleanText, FenceJson) THEN StripTail(StripHead(cleanText, FenceJson))
        ELSE IF StartsWith(cleanText, Fence) THEN StripTail(StripHead(cleanText, Fence))
        ELSE cleanText

\* the slice ended at the first } instead of the last
SliceToFirstClose(cleanText) ==
    LET firstBrace == IndexOf(cleanText, "{")
        lastBrace == IndexOf(cleanText, "}")
    IN  IF firstBrace # -1 /\ lastBrace # -1
        THEN Substring(cleanText, firstBrace, lastBrace + 1)
        ELSE cleanText

\* lines 281-286: slice from the first { to the last } when both exist
SliceBraces(cleanText) ==
    LET firstBrace == IndexOf(cleanText, "{")
        lastBrace == LastIndexOf(cleanText, "}")
    IN  IF firstBrace # -1 /\ lastBrace # -1
        THEN Substring(cleanText, firstBrace, lastBrace + 1)
        ELSE cleanText

parseJSON(text) == JSONparse(SliceBraces(StripFences(text)))

(***************************************************************************)
(* AssetAnalysisResult (types.ts 19-44) as a JSON value, with the member   *)
(* names and order of the interface.                                       *)
(***************************************************************************)
K_id == <<"i", "d">>

K_timestamp == <<"t", "i", "m", "e", "s", "t", "a", "m", "p">>

K_totalNetWorthCNY == <<"t", "o", "t", "a", "l", "N", "e", "t", "W", "o", "r", "t", "h", "C", "N", "Y">>

K_breakdown == <<"b", "r", "e", "a", "k", "d", "o", "w", "n">>

K_summary == <<"s", "u", "m", "m", "a", "r", "y">>

K_distributionAnalysis == <<"d", "i", "s", "t", "r", "i", "b", "u", "t", "i", "o", "n", "A", "n", "a", "l", "y", "s", "i", "s">>

K_investmentAdvice == <<"i", "n", "v", "e", "s", "t", "m", "e", "n", "t", "A", "d", "v", "i", "c", "e">>

K_riskMetrics == <<"r", "i", "s", "k", "M", "e", "t", "r", "i", "c", "s">>

K_stockConcentration == <<"s", "t", "o", "c", "k", "C", "o", "n", "c", "e", "n", "t", "r", "a", "t", "i", "o", "n">>

K_entityConcentration == <<"e", "n", "t", "i", "t", "y", "C", "o", "n", "c", "e", "n", "t", "r", "a", "t", "i", "o", "n">>

K_cashRatio == <<"c", "a", "s", "h", "R", "a", "t", "i", "o">>

K_riskAlerts == <<"r", "i", "s", "k", "A", "l", "e", "r", "t", "s">>

K_name == <<"n", "a", "m", "e">>

K_entity == <<"e", "n", "t", "i", "t", "y">>

K_originalAmount == <<"o", "r", "i", "g", "i", "n", "a", "l", "A", "m", "o", "u", "n", "t">>

K_currency == <<"c", "u", "r", "r", "e", "n", "c", "y">>

K_convertedAmountCNY == <<"c", "o", "n", "v", "e", "r", "t", "e", "d", "A", "m", "o", "u", "n", "t", "C", "N", "Y">>

K_type == <<"t", "y", "p", "e">>

K_macroCategory == <<"m", "a", "c", "r", "o", "C", "a", "t", "e", "g", "o", "r", "y">>

K_description == <<"d", "e", "s", "c", "r", "i", "p", "t", "i", "o", "n">>

\* the values of the enum AssetType, each written as the name of its member
AssetType ==
    {<<"C", "A", "S", "H">>, <<"S", "T", "O", "C", "K">>, <<"F", "U", "N", "D">>,
     <<"G", "O", "L", "D">>, <<"C", "R", "Y", "P", "T", "O">>, <<"O", "T", "H", "E", "R">>}

\* the values of the enum MacroCategory, each written as the name of its member
MacroCategory ==
    {<<"L", "I", "Q", "U", "I", "D", "I", "T", "Y">>, <<"I", "N", "V", "E", "S", "T", "M", "E", "N", "T">>,
     <<"R", "I", "S", "K">>, <<"S", "T", "A", "B", "L", "E">>}

\* an AssetItem; description is optional
AssetItem(name, withDescription) ==
    LET n == <<K_name, K_entity, K_originalAmount, K_currency, K_convertedAmountCNY,
               K_type, K_macroCategory>>
        c == <<JStr(name), JStr(<<"B", "k">>), JNum(<<"1", "0", "0">>), JStr(<<"U", "S", "D">>),
               JNum(<<"7", "2", "5">>), JStr(<<"S", "T", "O", "C", "K">>),
               JStr(<<"I", "N", "V", "E", "S", "T", "M", "E", "N", "T">>)>>
    IN  IF withDescription
        THEN JObj(Append(n, K_description), Append(c, JStr(name)))
        ELSE JObj(n, c)

RiskMetrics(ratio, alerts) ==
    JObj(<<K_stockConcentration, K_entityConcentration, K_cashRatio, K_riskAlerts>>,
         <<JNum(<<"1">>), JNum(<<"0">>), JNum(ratio), JArr([i \in 1..Len(alerts) |-> JStr(alerts[i])])>>)

AssetAnalysisResult(text, ratio, alerts, items) ==
    JObj(<<K_id, K_timestamp, K_totalNetWorthCNY, K_breakdown, K_summary,
           K_distributionAnalysis, K_investmentAdvice, K_riskMetrics>>,
         <<JStr(<<"r", "7">>), JNum(<<"1", "7", "0", "0">>), JNum(<<"7", "2", "5">>),
           JArr(items), JStr(text), JStr(text), JStr(<<>>), RiskMetrics(ratio, alerts)>>)

\* free text that could upset fence stripping, brace slicing or quoting
HostileText ==
    {<<>>, <<"o", "k">>, <<"a", "}", "b">>, <<"{">>, <<"}", "{">>, Fence, FenceJson,
     <<Quote>>, <<Backslash>>, <<"\n">>, <<" ">>}

AlertText == {<<"}">>, <<Quote, "x">>}

RatioText == {<<"0">>, <<"0", ".", "5">>, <<"1">>}

SeqsUpTo(S, n) == UNION {[1..m -> S] : m \in 0..n}

\* the schema-valid results the normalizer is fed back
Results ==
    {AssetAnalysisResult(t, r, a, [i \in 1..m |-> AssetItem(t, d)]) :
        t \in HostileText, r \in RatioText, a \in SeqsUpTo(AlertText, MaxList),
        m \in 0..MaxList, d \in BOOLEAN}

(***************************************************************************)
(* Model output handed to the normalizer.                                  *)
(***************************************************************************)
\* how a serialized result is wrapped: not at all, or in a fence with or
\* without the json tag, with or without line breaks inside the fence
Wraps == {"plain", "json", "jsonTight", "bare", "bareTight"}

Wrap(w, t) ==
    IF w = "json" THEN FenceJson \o <<"\n">> \o t \o <<"\n">> \o Fence
    ELSE IF w = "jsonTight" THEN FenceJson \o t \o Fence
    ELSE IF w = "bare" THEN Fence \o <<"\n">> \o t \o <<"\n">> \o Fence
    ELSE IF w = "bareTight" THEN Fence \o t \o Fence
    ELSE t

\* prose before the payload
Prefixes == {<<>>, <<"H", "i", ":", "\n">>, <<"\n">>, <<"a", "}", "b", " ">>, <<"{", "x", "}", " ">>}

\* prose after the payload
Suffixes == {<<>>, <<"\n", "o", "k">>, <<" ">>, <<" ", "{">>, <<" ", "}">>}

Opens == {<<>>, Fence \o <<"\n">>, FenceJson \o <<"\n">>, FenceJson, Fence \o <<"j", "s", "\n">>}

Closes == {<<>>, <<"\n">> \o Fence, Fence}

\* payloads: objects, other JSON values, malformed text
Bodies ==
    {<<"{", "}">>,
     <<"{", Quote, "a", Quote, ":", "1", "}">>,
     <<"{", Quote, "a", Quote, ":", "{", Quote, "b", Quote, ":", Quote, "}", Quote, "}", ",",
       Quote, "c", Quote, ":", "[", "1", ",", "{", "}", "]", "}">>,
     <<"{", Quote, "a", Quote, ":", Quote, Backtick, Backtick, Backtick, Quote, "}">>,
     <<"{", " ", Quote, "a", Quote, " ", ":", " ", "[", " ", "]", " ", "}">>,
     <<"{", Quote, "a", Quote, ":", "}">>,
     <<"{", Quote, "a", Quote, ":", "1">>,
     <<"[", "1", "]">>,
     <<Quote, "s", Quote>>,
     <<"4", "2">>,
     <<"n", "u", "l", "l">>,
     <<"t", "r", "u", "e">>,
     <<>>}

\* the alphabet of the texts enumerated exhaustively
RawAlphabet == {"{", "}", "[", "]", Quote, "1", " ", ",", Backtick}

RawTexts == SeqsUpTo(RawAlphabet, MaxRawLen)

WrappedTexts ==
    {pre \o open \o body \o close \o post :
        pre \in Prefixes, open \in Opens, body \in Bodies, close \in Closes, post \in Suffixes}

(***************************************************************************)
(* openAIFetch (gemini.ts 363-386): the request URL.                       *)
(***************************************************************************)
ChatCompletions ==
    <<"/", "c", "h", "a", "t", "/", "c", "o", "m", "p", "l", "e", "t", "i", "o", "n", "s">>

V1ChatCompletions == <<"/", "v", "1">> \o ChatCompletions

\* endpoint.replace(/\/$/, ""): one trailing slash is removed
StripSlash(endpoint) ==
    IF endpoint # <<>> /\ endpoint[Len(endpoint)] = "/"
    THEN SubSeq(endpoint, 1, Len(endpoint) - 1)
    ELSE endpoint

\* lines 365-368
CleanEndpoint(endpoint) ==
    LET cleanEndpoint == StripSlash(endpoint)
    IN  IF ~EndsWith(cleanEndpoint, V1ChatCompletions) /\ ~EndsWith(cleanEndpoint, ChatCompletions)
        THEN cleanEndpoint \o ChatCompletions
        ELSE cleanEndpoint

(***************************************************************************)
(* Configuration values (AnalysisConfig, gemini.ts 389-401).  An optional  *)
(* string is a character sequence, or Absent for undefined.                *)
(***************************************************************************)
Absent == <<"undefined">>

\* JavaScript truthiness of an optional string
Truthy(s) == s # Absent /\ s # <<>>

\* a || b
Or(a, b) == IF Truthy(a) THEN a ELSE b

(***************************************************************************)
(* Errors.  An error is [str, message]: what toString() gives and its      *)
(* message property (Absent when it has none).  A fixed text of the source *)
(* is one opaque element; text that varies (a status code, a response      *)
(* body, a model name) is spelled out in characters, so that includes()    *)
(* searches it as the code does.                                           *)
(***************************************************************************)
\* String.prototype.includes
Includes(s, p) ==
    \E i \in 1..(Len(s) - Len(p) + 1) : SubSeq(s, i, i + Len(p) - 1) = p

\* new Error(message)
Error(message) ==
    [str |-> IF message = <<>> THEN <<"Error">> ELSE <<"Error: ">> \o message,
     message |-> message]

\* the SyntaxError JSON.parse throws
SyntaxError == [str |-> <<"SyntaxError: ", "Unexpected token">>, message |-> <<"Unexpected token">>]

\* the TypeError fetch rejects with when the transport fails
FetchFailed == [str |-> <<"TypeError: ", "Failed to fetch">>, message |-> <<"Failed to fetch">>]

\* the ProgressEvent FileReader.onerror rejects with (line 243): no message
ReadFailed == [str |-> <<"[object ProgressEvent]">>, message |-> Absent]

\* line 498
MsgMissingKey == <<"API Key missing. Configure your Key in the settings.">>

\* line 407
MsgBaseUrlRequired == <<"OpenAI compatible mode requires a Base URL / Endpoint.">>

\* line 408
MsgApiKeyMissing == <<"API Key missing.">>

\* line 409
MsgModelRequired == <<"The reasoning model name is required.">>

\* line 358
MsgNoData == <<"AI returned no valid data">>

\* line 459
MsgNoLogicContent == <<"The logic model returned no content">>

\* line 489
MsgNoContent == <<"AI returned no content">>

\* line 513
MsgGeneric == <<"Asset analysis failed, please retry.">>

\* line 517
MsgAuth == <<"Authentication failed: API Key invalid.">>

\* line 519
MsgQuota == <<"Insufficient permission or quota exhausted (403).">>

\* line 521
MsgNetwork == <<"Network connection failed. Check the Base URL or the proxy.">>

\* line 523
MsgNotFound == <<"Wrong request path (404). Check the Base URL or the model name.">>

\* line 525
MsgApiCall(message) == <<"API call error: ">> \o message

\* line 381
HttpError(code, errorText) ==
    Error(<<"OpenAI API Error (">> \o code \o <<"): ">> \o errorText)

\* line 440
VisionError(visionModelName, err) ==
    Error(<<"Vision model call failed (Model: ">> \o visionModelName \o <<"): ">> \o err.message)

\* the classification without the branch of line 524: an unmatched error
\* always gets the generic message
ClassifyNoFallback(error) ==
    LET errStr == error.str
    IN  IF Includes(errStr, <<"API key not valid">>) \/ Includes(errStr, <<"4", "0", "1">>)
        THEN MsgAuth
        ELSE IF Includes(errStr, <<"4", "0", "3">>) \/ Includes(errStr, <<"q", "u", "o", "t", "a">>)
        THEN MsgQuota
        ELSE IF Includes(errStr, <<"Failed to fetch">>) \/ Includes(errStr, <<"NetworkError">>)
        THEN MsgNetwork
        ELSE IF Includes(errStr, <<"4", "0", "4">>)
        THEN MsgNotFound
        ELSE MsgGeneric

\* lines 513-526: the message the caught error is re-raised with
Classify(error) ==
    LET errStr == error.str
    IN  IF Includes(errStr, <<"API key not valid">>) \/ Includes(errStr, <<"4", "0", "1">>)
        THEN MsgAuth
        ELSE IF Includes(errStr, <<"4", "0", "3">>) \/ Includes(errStr, <<"q", "u", "o", "t", "a">>)
        THEN MsgQuota
        ELSE IF Includes(errStr, <<"Failed to fetch">>) \/ Includes(errStr, <<"NetworkError">>)
        THEN MsgNetwork
        ELSE IF Includes(errStr, <<"4", "0", "4">>)
        THEN MsgNotFound
        ELSE IF Truthy(error.message)
        THEN MsgApiCall(error.message)
        ELSE MsgGeneric

(***************************************************************************)
(* State.                                                                  *)
(*   One invocation of analyzeFinancialScreenshots:                        *)
(*     cfg, envKey, nFiles  its inputs: the AnalysisConfig, the process-   *)
(*                          wide process.env.API_KEY, the number of files  *)
(*     pc                   where the invocation's own flow is suspended   *)
(*     task                 per file, the promise of its OCR task (Split)  *)
(*                          or of its read (Gemini)                        *)
(*     content              the parts pushed so far (Unified)              *)
(*     requests             the network requests issued, in order          *)
(*     settled              the files whose promise fulfilled, in order    *)
(*     reads                how many file reads were started               *)
(*     outcome              what the invocation returned or threw          *)
(*     cause                history: what made the invocation fail (the    *)
(*                          failed check, read or backend answer)          *)
(*   The normalizer on its own: ntext (the model output), nsrc (the result *)
(*     it was serialized from, if any), nout (what parseJSON gave), npc.   *)
(*   The endpoint rule on its own: ubase (the base URL), uout (the request *)
(*     URL), upc.                                                          *)
(*   Two invocations in one event loop: the variables above are the locals *)
(*     of the invocation that runs (who: 1 or 2), other holds the locals   *)
(*     of the one that is suspended; envKey is the one process.env.        *)
(*   The App component: its state hooks activeTab, status, files (how      *)
(*     many are selected), result (<<>> for null, else <<snapshot>>),      *)
(*     history, errorMsg; storage (localStorage's item 'wealth_history');  *)
(*     runs, one record per call of handleAnalyze: where it is suspended   *)
(*     (pc), the history its closure captured (hist), whether its interval *)
(*     timer is set (timer), and the snapshot it got (data).               *)
(***************************************************************************)
VARIABLES cfg, envKey, nFiles, pc, task, content, requests, settled, reads, outcome, cause,
          ntext, nsrc, nout, npc, ubase, uout, upc,
          who, other,
          activeTab, status, files, result, history, storage, errorMsg, runs

ivars == <<cfg, envKey, nFiles, pc, task, content, requests, settled, reads, outcome, cause>>

nvars == <<ntext, nsrc, nout, npc>>

uvars == <<ubase, uout, upc>>

pvars == <<who, other>>

avars == <<activeTab, status, files, result, history, storage, errorMsg, runs>>

vars == <<ivars, nvars, uvars, pvars, avars>>

(***************************************************************************)
(* The inputs and the backend's answers.                                   *)
(***************************************************************************)
Providers == {"gemini", "openai"}

Configs ==
    [provider : Providers,
     apiKey : {Absent, <<>>, <<"k">>},
     baseUrl : {Absent, <<>>, <<"h">>},
     modelName : {Absent, <<>>, <<"m">>},
     visionModelName : {Absent, <<>>, <<" ">>, <<"v">>},
     visionApiKey : {Absent, <<"w">>},
     visionBaseUrl : {Absent, <<"g">>}]

EnvKeys == {Absent, <<"e">>}

\* what a vision backend may transcribe
OcrTexts == {<<"A">>, <<"B">>}

Statuses ==
    {<<"4", "0", "1">>, <<"4", "0", "3">>, <<"4", "0", "4">>, <<"4", "2", "9">>, <<"5", "0", "0">>}

\* the body of a non-2xx response: denied, no quota
ErrorBodies == {<<"d", "e", "n", "i", "e", "d">>, <<"n", "o", " ", "q", "u", "o", "t", "a">>}

\* an analysis as a backend writes it, cut down to two of its members to
\* keep the replies short: {"id":"r7","riskMetrics":{"cashRatio":0.5}}
SampleReply ==
    <<"{", Quote, "i", "d", Quote, ":", Quote, "r", "7", Quote, ",",
      Quote, "r", "i", "s", "k", "M", "e", "t", "r", "i", "c", "s", Quote, ":",
      "{", Quote, "c", "a", "s", "h", "R", "a", "t", "i", "o", Quote, ":", "0", ".", "5", "}", "}">>

\* an analysis with no id, a cash ratio above 1 and an item of an unknown
\* type: {"riskMetrics":{"cashRatio":1.4},"breakdown":[{"type":"X"}]}
OddReply ==
    <<"{", Quote, "r", "i", "s", "k", "M", "e", "t", "r", "i", "c", "s", Quote, ":",
      "{", Quote, "c", "a", "s", "h", "R", "a", "t", "i", "o", Quote, ":", "1", ".", "4", "}", ",",
      Quote, "b", "r", "e", "a", "k", "d", "o", "w", "n", Quote, ":",
      "[", "{", Quote, "t", "y", "p", "e", Quote, ":", Quote, "X", Quote, "}", "]", "}">>

\* what a reasoning backend may answer with: a result, a fenced result amid
\* prose, a result that breaks the schema, a JSON value that is no object,
\* broken JSON, the empty string
ReplyTexts ==
    {SampleReply,
     OddReply,
     <<"H", "i", ":", "\n">> \o Wrap("json", SampleReply) \o <<"\n", "o", "k">>,
     <<"n", "u", "l", "l">>,
     <<"{">>,
     <<>>}

\* a backend's answer to one request: content (choices[0].message.content,
\* or response.text), no content at all, a non-2xx status with a body, or a
\* transport failure
Answer(kind, text, code) == [kind |-> kind, text |-> text, status |-> code]

Failures ==
    {Answer("http", b, st) : b \in ErrorBodies, st \in Statuses} \cup {Answer("network", <<>>, <<>>)}

OcrAnswers == {Answer("content", t, <<>>) : t \in OcrTexts} \cup {Answer("absent", <<>>, <<>>)} \cup Failures

ReplyAnswers == {Answer("content", t, <<>>) : t \in ReplyTexts} \cup {Answer("absent", <<>>, <<>>)} \cup Failures

(***************************************************************************)
(* analyzeFinancialScreenshots and its strategies (gemini.ts 292-530).     *)
(***************************************************************************)
\* the process-wide key taken first, the per-call key only without it
ResolveKeyEnvFirst(config, env) == Or(env, config.apiKey)

\* line 495: the effective API key
ResolveKey(config, env) == Or(config.apiKey, env)

\* the credential check left out
KeyMissingNever(apiKey) == FALSE

\* line 497: the credential check
KeyMissing(apiKey) == ~Truthy(apiKey)

\* line 502: finalConfig
FinalConfig == [cfg EXCEPT !.apiKey = ResolveKey(cfg, envKey)]

\* the configuration checks without the one of the base URL
ConfigErrorNoBaseUrl(config) ==
    IF ~Truthy(config.apiKey) THEN MsgApiKeyMissing
    ELSE IF ~Truthy(config.modelName) THEN MsgModelRequired
    ELSE <<>>

\* lines 407-409: the message of the configuration error thrown, <<>> if none
ConfigError(config) ==
    IF ~Truthy(config.baseUrl) THEN MsgBaseUrlRequired
    ELSE IF ~Truthy(config.apiKey) THEN MsgApiKeyMissing
    ELSE IF ~Truthy(config.modelName) THEN MsgModelRequired
    ELSE <<>>

\* the strategy chosen by the vision key instead of the vision model name
UseSplitByVisionKey(config) == Truthy(config.visionApiKey)

\* the strategy chosen without the trim of line 412
UseSplitNoTrim(config) == Truthy(config.visionModelName)

\* line 412: whether the Split strategy is taken
UseSplit(config) ==
    Truthy(config.visionModelName) /\ Trim(config.visionModelName) # <<>>

\* line 306
DefaultGeminiModel == <<"gemini-3-pro-preview">>

\* lines 311, 429, 466: the instruction text part of a request's content,
\* the image parts being the indexes 1.. of the files
TextPart == 0

Request(kind, idx, url, key, model, images, transcript) ==
    [kind |-> kind, idx |-> idx, url |-> url, key |-> key, model |-> model,
     images |-> images, transcript |-> transcript]

\* the OCR request sent to the primary endpoint with the primary key
OcrRequestPrimary(config, i) ==
    Request("ocr", i, CleanEndpoint(config.baseUrl), config.apiKey, config.visionModelName, <<TextPart, i>>, <<>>)

\* lines 414-437: the OCR request of file i
OcrRequest(config, i) ==
    Request("ocr", i, CleanEndpoint(Or(config.visionBaseUrl, config.baseUrl)),
            Or(config.visionApiKey, config.apiKey), config.visionModelName, <<TextPart, i>>, <<>>)

\* lines 448-458: the reasoning request over the transcript
ReasoningRequest(config, extractedTexts) ==
    Request("reasoning", 0, CleanEndpoint(config.baseUrl), config.apiKey, config.modelName,
            <<>>, extractedTexts)

\* lines 480-488: the single multimodal request
UnifiedRequest(config, parts) ==
    Request("unified", 0, CleanEndpoint(config.baseUrl), config.apiKey, config.modelName,
            parts, <<>>)

\* lines 293-311: the generateContent call
GeminiRequest(config, parts) ==
    Request("gemini", 0, Or(config.baseUrl, Absent), config.apiKey, Or(config.modelName, DefaultGeminiModel),
            parts \o <<TextPart>>, <<>>)

\* a promise: pending ("reading", then for an OCR task "fetching"),
\* "fulfilled" with val, or "rejected"
Promise(st, hdr, text) == [st |-> st, val |-> [hdr |-> hdr, text |-> text]]

\* line 438: the value an OCR task fulfils with; absent content is
\* interpolated as the text undefined
OcrValue(index, answer) ==
    Promise("fulfilled", index, IF answer.kind = "absent" THEN Absent ELSE answer.text)

\* the error a failed request throws out of openAIFetch (fetch itself, or
\* line 381)
FetchError(answer) ==
    IF answer.kind = "http" THEN HttpError(answer.status, answer.text) ELSE FetchFailed

\* Promise.allSettled in place of Promise.all: waits for every promise and
\* goes on with those that fulfilled
PromiseAllSettled(t) ==
    IF \A i \in DOMAIN t : t[i].st \in {"fulfilled", "rejected"} THEN "fulfilled" ELSE "pending"

\* Promise.any in place of Promise.all: goes on with the first promise
\* that fulfils
PromiseAny(t) ==
    IF \E i \in DOMAIN t : t[i].st = "fulfilled" THEN "fulfilled"
    ELSE IF \A i \in DOMAIN t : t[i].st = "rejected" THEN "rejected"
    ELSE "pending"

\* a join that counts fulfilments only: a rejected promise leaves it
\* pending
PromiseAllFulfilledOnly(t) ==
    IF \A i \in DOMAIN t : t[i].st = "fulfilled" THEN "fulfilled" ELSE "pending"

\* Promise.all (lines 298, 444): rejected as soon as one promise is,
\* fulfilled once all are
PromiseAll(t) ==
    IF \E i \in DOMAIN t : t[i].st = "rejected" THEN "rejected"
    ELSE IF \A i \in DOMAIN t : t[i].st = "fulfilled" THEN "fulfilled"
    ELSE "pending"

\* the values collected as the promises fulfil, in that order
ExtractedTextsAsCompleted(t, order) == [j \in 1..Len(order) |-> t[order[j]].val]

\* line 444: the values Promise.all resolves to, in the order of the
\* promises given, whatever the order they fulfilled in
ExtractedTexts(t, order) == [i \in DOMAIN t |-> t[i].val]

\* what the catch block of line 510 (or the caller, for line 498) was handed:
\* a failed check ("config"), a failed read of file idx ("read"), a backend
\* answer ("http" with its status and body, "network", "empty": no content)
\* to the OCR request of file idx or, with idx 0, to the only or the
\* reasoning request, or content that does not parse ("syntax")
Cause(kind, code, text, idx) == [kind |-> kind, status |-> code, text |-> text, idx |-> idx]

NoCause == Cause("none", <<>>, <<>>, 0)

Returned(value) == [st |-> "done", msg |-> <<>>, result |-> value]

Thrown(msg) == [st |-> "failed", msg |-> msg, result |-> NoVal]

\* lines 510-528: the catch block
Caught(error) == Thrown(Classify(error))

NormalizerIdle == ntext = <<>> /\ nsrc = NoVal /\ nout = [ok |-> FALSE, v |-> NoVal] /\ npc = "off"

EndpointIdle == ubase = <<>> /\ uout = <<>> /\ upc = "off"

NoPromise == Promise("idle", 0, <<>>)

\* the locals of the invocation in the foreground
Locals ==
    [cfg |-> cfg, nFiles |-> nFiles, pc |-> pc, task |-> task, content |-> content,
     requests |-> requests, settled |-> settled, reads |-> reads, outcome |-> outcome,
     cause |-> cause]

\* no second invocation
PairIdle == who = 0 /\ other = <<>>

\* React's null
Null == <<"null">>

\* the item 'wealth_history' of localStorage: absent, or the snapshots
\* JSON.stringify wrote, in their order
Stored(present, v) == [present |-> present, v |-> v]

\* the App not mounted
AppIdle ==
    /\ activeTab = "upload"
    /\ status = "idle"
    /\ files = 0
    /\ result = <<>>
    /\ history = <<>>
    /\ storage = Stored(FALSE, <<>>)
    /\ errorMsg = Null
    /\ runs = <<>>

InvocationIdle ==
    /\ cfg = [provider |-> "gemini", apiKey |-> Absent, baseUrl |-> Absent, modelName |-> Absent,
              visionModelName |-> Absent, visionApiKey |-> Absent, visionBaseUrl |-> Absent]
    /\ envKey = Absent
    /\ nFiles = 0
    /\ pc = "off"
    /\ task = <<>>
    /\ content = <<>>
    /\ requests = <<>>
    /\ settled = <<>>
    /\ reads = 0
    /\ outcome = [st |-> "none", msg |-> <<>>, result |-> NoVal]
    /\ cause = NoCause

\* before the call: any configuration, any default key, one file or more
Init ==
    /\ cfg \in Configs
    /\ envKey \in EnvKeys
    /\ nFiles \in 1..MaxImages
    /\ pc = "start"
    /\ task = [i \in 1..nFiles |-> NoPromise]
    /\ content = <<>>
    /\ requests = <<>>
    /\ settled = <<>>
    /\ reads = 0
    /\ outcome = [st |-> "none", msg |-> <<>>, result |-> NoVal]
    /\ cause = NoCause
    /\ NormalizerIdle
    /\ EndpointIdle
    /\ PairIdle
    /\ AppIdle

\* the call, up to its first suspension: the credential check (495-499),
\* the dispatch (505-508), the configuration checks (407-409) and the start
\* of the file reads (421, 469, 298-300)
Analyze ==
    /\ pc = "start"
    /\ UNCHANGED <<cfg, envKey, nFiles, requests, settled>>
    /\ content' = IF /\ ~KeyMissing(ResolveKey(cfg, envKey))
                     /\ cfg.provider = "openai"
                     /\ ConfigError(FinalConfig) = <<>>
                     /\ ~UseSplit(FinalConfig)
                  THEN <<TextPart>>
                  ELSE content
    /\ IF KeyMissing(ResolveKey(cfg, envKey))
       THEN /\ pc' = "failed"
            /\ outcome' = Thrown(MsgMissingKey)
            /\ cause' = Cause("config", <<>>, <<>>, 0)
            /\ UNCHANGED <<task, reads>>
       ELSE IF cfg.provider = "openai" /\ ConfigError(FinalConfig) # <<>>
       THEN /\ pc' = "failed"
            /\ outcome' = Caught(Error(ConfigError(FinalConfig)))
            /\ cause' = Cause("config", <<>>, <<>>, 0)
            /\ UNCHANGED <<task, reads>>
       ELSE IF cfg.provider = "openai" /\ UseSplit(FinalConfig)
       THEN /\ pc' = "ocr"
            /\ task' = [i \in 1..nFiles |-> Promise("reading", 0, <<>>)]
            /\ reads' = nFiles
            /\ UNCHANGED <<outcome, cause>>
       ELSE IF cfg.provider = "openai"
       THEN /\ pc' = "unifiedRead"
            /\ reads' = 1
            /\ UNCHANGED <<task, outcome, cause>>
       ELSE /\ pc' = "geminiRead"
            /\ task' = [i \in 1..nFiles |-> Promise("reading", 0, <<>>)]
            /\ reads' = nFiles
            /\ UNCHANGED <<outcome, cause>>
    /\ UNCHANGED <<nvars, uvars, pvars, avars>>

\* Split, line 444 onwards: what the invocation does when the promise of
\* file i has just settled as in t, the task having thrown err if it
\* rejected.  The invocation is only listening while it awaits Promise.all.
AfterOcr(t, order, err) ==
    IF pc = "ocr" /\ PromiseAll(t) = "rejected"
    THEN /\ pc' = "failed"
         /\ outcome' = Caught(err)
         /\ UNCHANGED requests
    ELSE IF pc = "ocr" /\ PromiseAll(t) = "fulfilled"
    THEN /\ pc' = "reasoning"
         /\ requests' = Append(requests, ReasoningRequest(FinalConfig, ExtractedTexts(t, order)))
         /\ UNCHANGED outcome
    ELSE UNCHANGED <<pc, outcome, requests>>

\* Split, lines 421-437: the read of file i completes and its OCR request
\* is sent (also when the invocation has failed meanwhile: nothing cancels
\* the task)
OcrReadDone(i) ==
    /\ cfg.provider = "openai"
    /\ pc \in {"ocr", "reasoning", "failed", "done"}
    /\ task[i].st = "reading"
    /\ task' = [task EXCEPT ![i] = Promise("fetching", 0, <<>>)]
    /\ requests' = Append(requests, OcrRequest(FinalConfig, i))
    /\ UNCHANGED <<cfg, envKey, nFiles, pc, content, settled, reads, outcome, cause, nvars, uvars, pvars, avars>>

\* Split, line 421: the read of file i fails; the task rejects with the
\* reader's event, outside the try of lines 436-441
OcrReadFailed(i) ==
    /\ cfg.provider = "openai"
    /\ pc \in {"ocr", "reasoning", "failed", "done"}
    /\ task[i].st = "reading"
    /\ task' = [task EXCEPT ![i] = Promise("rejected", 0, <<>>)]
    /\ AfterOcr(task', settled, ReadFailed)
    /\ cause' = IF pc = "ocr" THEN Cause("read", <<>>, <<>>, i) ELSE cause
    /\ UNCHANGED <<cfg, envKey, nFiles, content, settled, reads, nvars, uvars, pvars, avars>>

\* the OCR request of file i sent once more when its first answer is a
\* failure
OcrAnsweredRetry(i) ==
    /\ cfg.provider = "openai"
    /\ pc \in {"ocr", "reasoning", "failed", "done"}
    /\ task[i].st = "fetching"
    /\ \E answer \in OcrAnswers :
          IF /\ answer.kind \in {"http", "network"}
             /\ Cardinality({j \in 1..Len(requests) : requests[j] = OcrRequest(FinalConfig, i)}) = 1
          THEN /\ requests' = Append(requests, OcrRequest(FinalConfig, i))
               /\ UNCHANGED <<task, settled, pc, outcome, cause>>
          ELSE /\ IF answer.kind \in {"content", "absent"}
                  THEN /\ task' = [task EXCEPT ![i] = OcrValue(i, answer)]
                       /\ settled' = Append(settled, i)
                  ELSE /\ task' = [task EXCEPT ![i] = Promise("rejected", 0, <<>>)]
                       /\ UNCHANGED settled
               /\ AfterOcr(task', settled', VisionError(FinalConfig.visionModelName, FetchError(answer)))
               /\ cause' = IF pc = "ocr" /\ answer.kind \in {"http", "network"}
                           THEN Cause(answer.kind, answer.status, answer.text, i)
                           ELSE cause
    /\ UNCHANGED <<cfg, envKey, nFiles, content, reads, nvars, uvars, pvars, avars>>

\* Split, lines 436-441: the OCR request of file i is answered
OcrAnswered(i) ==
    /\ cfg.provider = "openai"
    /\ pc \in {"ocr", "reasoning", "failed", "done"}
    /\ task[i].st = "fetching"
    /\ \E answer \in OcrAnswers :
          /\ IF answer.kind \in {"content", "absent"}
             THEN /\ task' = [task EXCEPT ![i] = OcrValue(i, answer)]
                  /\ settled' = Append(settled, i)
             ELSE /\ task' = [task EXCEPT ![i] = Promise("rejected", 0, <<>>)]
                  /\ UNCHANGED settled
          /\ AfterOcr(task', settled', VisionError(FinalConfig.visionModelName, FetchError(answer)))
          /\ cause' = IF pc = "ocr" /\ answer.kind \in {"http", "network"}
                      THEN Cause(answer.kind, answer.status, answer.text, i)
                      ELSE cause
    /\ UNCHANGED <<cfg, envKey, nFiles, content, reads, nvars, uvars, pvars, avars>>

\* lines 458-460 and 488-490: the reasoning (Split) or the single (Unified)
\* request is answered
ReplyAnswered ==
    /\ pc \in {"reasoning", "unified"}
    /\ \E answer \in ReplyAnswers :
          IF answer.kind \in {"http", "network"}
          THEN /\ outcome' = Caught(FetchError(answer))
               /\ cause' = Cause(answer.kind, answer.status, answer.text, 0)
          ELSE IF answer.kind = "absent" \/ answer.text = <<>>
          THEN /\ outcome' = Caught(Error(IF pc = "reasoning" THEN MsgNoLogicContent ELSE MsgNoContent))
               /\ cause' = Cause("empty", <<>>, <<>>, 0)
          ELSE LET parsed == parseJSON(answer.text)
               IN  IF parsed.ok
                   THEN outcome' = Returned(parsed.v) /\ UNCHANGED cause
                   ELSE outcome' = Caught(SyntaxError) /\ cause' = Cause("syntax", <<>>, <<>>, 0)
    /\ pc' = IF outcome'.st = "done" THEN "done" ELSE "failed"
    /\ UNCHANGED <<cfg, envKey, nFiles, task, content, requests, settled, reads, nvars, uvars, pvars, avars>>

\* the files read side by side, each image part pushed as its read
\* completes
UnifiedReadAnyOrder ==
    /\ pc = "unifiedRead"
    /\ \E i \in 1..nFiles :
          /\ \A j \in 1..Len(content) : content[j] # i
          /\ content' = Append(content, i)
    /\ IF Len(content') - 1 < nFiles
       THEN /\ reads' = reads + 1
            /\ UNCHANGED <<pc, requests>>
       ELSE /\ pc' = "unified"
            /\ requests' = Append(requests, UnifiedRequest(FinalConfig, content'))
            /\ UNCHANGED reads
    /\ UNCHANGED <<cfg, envKey, nFiles, task, settled, outcome, cause, nvars, uvars, pvars, avars>>

\* Unified, lines 468-488: the read of the next file completes; its image
\* part is pushed, and the next read starts or the request is sent
UnifiedReadDone ==
    /\ pc = "unifiedRead"
    /\ content' = Append(content, Len(content))
    /\ IF Len(content') - 1 < nFiles
       THEN /\ reads' = reads + 1
            /\ UNCHANGED <<pc, requests>>
       ELSE /\ pc' = "unified"
            /\ requests' = Append(requests, UnifiedRequest(FinalConfig, content'))
            /\ UNCHANGED reads
    /\ UNCHANGED <<cfg, envKey, nFiles, task, settled, outcome, cause, nvars, uvars, pvars, avars>>

\* Unified, line 469: a read fails
UnifiedReadFailed ==
    /\ pc = "unifiedRead"
    /\ pc' = "failed"
    /\ outcome' = Caught(ReadFailed)
    /\ cause' = Cause("read", <<>>, <<>>, Len(content))
    /\ UNCHANGED <<cfg, envKey, nFiles, task, content, requests, settled, reads, nvars, uvars, pvars, avars>>

\* Gemini, line 298 onwards: what the invocation does when a read settled
AfterGeminiRead(t) ==
    IF pc = "geminiRead" /\ PromiseAll(t) = "rejected"
    THEN /\ pc' = "failed"
         /\ outcome' = Caught(ReadFailed)
         /\ UNCHANGED requests
    ELSE IF pc = "geminiRead" /\ PromiseAll(t) = "fulfilled"
    THEN /\ pc' = "gemini"
         /\ requests' = Append(requests, GeminiRequest(FinalConfig, [i \in DOMAIN t |-> t[i].val.hdr]))
         /\ UNCHANGED outcome
    ELSE UNCHANGED <<pc, outcome, requests>>

\* Gemini, lines 298-303: the read of file i completes or fails
GeminiReadSettled(i, ok) ==
    /\ cfg.provider = "gemini"
    /\ pc \in {"geminiRead", "failed"}
    /\ task[i].st = "reading"
    /\ task' = [task EXCEPT ![i] = IF ok THEN Promise("fulfilled", i, <<>>)
                                        ELSE Promise("rejected", 0, <<>>)]
    /\ AfterGeminiRead(task')
    /\ cause' = IF pc = "geminiRead" /\ ~ok THEN Cause("read", <<>>, <<>>, i) ELSE cause
    /\ UNCHANGED <<cfg, envKey, nFiles, content, settled, reads, nvars, uvars, pvars, avars>>

\* what the SDK throws for a non-2xx status or a failed transport
GeminiError(answer) ==
    IF answer.kind = "http"
    THEN Error(<<"got status: ">> \o answer.status \o <<". ">> \o answer.text)
    ELSE FetchFailed

\* Gemini, lines 357-359: generateContent is answered; the text is parsed
\* by JSON.parse directly
GeminiAnswered ==
    /\ pc = "gemini"
    /\ \E answer \in ReplyAnswers :
          IF answer.kind \in {"http", "network"}
          THEN /\ outcome' = Caught(GeminiError(answer))
               /\ cause' = Cause(answer.kind, answer.status, answer.text, 0)
          ELSE IF answer.kind = "absent" \/ answer.text = <<>>
          THEN /\ outcome' = Caught(Error(MsgNoData))
               /\ cause' = Cause("empty", <<>>, <<>>, 0)
          ELSE LET parsed == JSONparse(answer.text)
               IN  IF parsed.ok
                   THEN outcome' = Returned(parsed.v) /\ UNCHANGED cause
                   ELSE outcome' = Caught(SyntaxError) /\ cause' = Cause("syntax", <<>>, <<>>, 0)
    /\ pc' = IF outcome'.st = "done" THEN "done" ELSE "failed"
    /\ UNCHANGED <<cfg, envKey, nFiles, task, content, requests, settled, reads, nvars, uvars, pvars, avars>>

Next ==
    \/ Analyze
    \/ \E i \in 1..nFiles : OcrReadDone(i)
    \/ \E i \in 1..nFiles : OcrReadFailed(i)
    \/ \E i \in 1..nFiles : OcrAnswered(i)
    \/ ReplyAnswered
    \/ UnifiedReadDone
    \/ UnifiedReadFailed
    \/ \E i \in 1..nFiles, ok \in BOOLEAN : GeminiReadSettled(i, ok)
    \/ GeminiAnswered

Spec == Init /\ [][Next]_vars

\* before the call, with the vision endpoint and key left to their
\* fallbacks and no default key
InitLive ==
    /\ cfg \in {c \in Configs : c.visionApiKey = Absent /\ c.visionBaseUrl = Absent}
    /\ envKey = Absent
    /\ nFiles \in 1..MaxImages
    /\ pc = "start"
    /\ task = [i \in 1..nFiles |-> NoPromise]
    /\ content = <<>>
    /\ requests = <<>>
    /\ settled = <<>>
    /\ reads = 0
    /\ outcome = [st |-> "none", msg |-> <<>>, result |-> NoVal]
    /\ cause = NoCause
    /\ NormalizerIdle
    /\ EndpointIdle
    /\ PairIdle
    /\ AppIdle

\* every read the invocation started and every request it issued is
\* eventually completed or failed, and a continuation that is ready runs:
\* as long as a step is possible, one is taken
SpecLive == InitLive /\ [][Next]_vars /\ WF_vars(Next)

(***************************************************************************)
(* The normalizer on its own: parseJSON applied to a model output, which   *)
(* is a short text over RawAlphabet, a payload between optional prose and  *)
(* fences, or a serialized result, wrapped or not.                         *)
(***************************************************************************)
InitNormalizer ==
    /\ InvocationIdle
    /\ EndpointIdle
    /\ PairIdle
    /\ AppIdle
    /\ npc = "input"
    /\ nout = [ok |-> FALSE, v |-> NoVal]
    /\ \/ /\ nsrc = NoVal
          /\ ntext \in RawTexts \cup WrappedTexts
       \/ \E r \in Results, w \in Wraps :
             /\ nsrc = r
             /\ ntext = Wrap(w, JSONstringify(r))

Normalize ==
    /\ npc = "input"
    /\ nout' = parseJSON(ntext)
    /\ npc' = "parsed"
    /\ UNCHANGED <<ntext, nsrc, ivars, uvars, pvars, avars>>

NextNormalizer == Normalize

SpecNormalizer == InitNormalizer /\ [][NextNormalizer]_vars

(***************************************************************************)
(* The endpoint rule on its own: openAIFetch's URL for a base URL made of  *)
(* a host followed by slashes and path segments.                           *)
(***************************************************************************)
Host == <<"h">>

UrlPieces == {<<"/">>, <<"/", "v", "1">>, <<"/", "c", "h", "a", "t">>, ChatCompletions}

RECURSIVE UrlsOf(_)
\* the texts made of at most n pieces
UrlsOf(n) ==
    IF n = 0 THEN {<<>>}
    ELSE LET shorter == UrlsOf(n - 1)
         IN  shorter \cup {u \o p : u \in shorter, p \in UrlPieces}

\* a base URL is not empty (lines 407, 414)
BaseUrls == {Host \o u : u \in UrlsOf(MaxUrlParts)}

InitEndpoint ==
    /\ InvocationIdle
    /\ NormalizerIdle
    /\ PairIdle
    /\ AppIdle
    /\ ubase \in BaseUrls
    /\ uout = <<>>
    /\ upc = "input"

ResolveEndpoint ==
    /\ upc = "input"
    /\ uout' = CleanEndpoint(ubase)
    /\ upc' = "resolved"
    /\ UNCHANGED <<ubase, ivars, nvars, pvars, avars>>

NextEndpoint == ResolveEndpoint

SpecEndpoint == InitEndpoint /\ [][NextEndpoint]_vars

(***************************************************************************)
(* Two invocations of analyzeFinancialScreenshots in one event loop.  An   *)
(* invocation runs until it suspends at an await; any continuation that is *)
(* ready, of either invocation, runs next.  Each invocation's variables    *)
(* are locals of its own calls (lines 292-530 declare no variable outside  *)
(* a function body); process.env is the only thing both can reach.         *)
(***************************************************************************)
\* most screenshots handed to each of two concurrent invocations
MaxPairImages == 1

PairConfig(provider, visionModelName) ==
    [provider |-> provider, apiKey |-> <<"k">>, baseUrl |-> <<"h">>, modelName |-> <<"m">>,
     visionModelName |-> visionModelName, visionApiKey |-> Absent, visionBaseUrl |-> Absent]

\* a Gemini, a Unified and a Split configuration for the first invocation
PairConfigs ==
    {PairConfig("gemini", Absent), PairConfig("openai", Absent), PairConfig("openai", <<"v">>)}

\* a Gemini and a Unified configuration for the second
SecondConfigs == {PairConfig("gemini", Absent), PairConfig("openai", Absent)}

\* the locals of an invocation before its call
Fresh(config, n) ==
    [cfg |-> config, nFiles |-> n, pc |-> "start", task |-> [i \in 1..n |-> NoPromise],
     content |-> <<>>, requests |-> <<>>, settled |-> <<>>, reads |-> 0,
     outcome |-> [st |-> "none", msg |-> <<>>, result |-> NoVal], cause |-> NoCause]

InitPair ==
    /\ envKey \in EnvKeys
    /\ who = 1
    /\ \E c1 \in PairConfigs, n1 \in 1..MaxPairImages :
          /\ cfg = c1
          /\ nFiles = n1
          /\ pc = "start"
          /\ task = [i \in 1..n1 |-> NoPromise]
    /\ content = <<>>
    /\ requests = <<>>
    /\ settled = <<>>
    /\ reads = 0
    /\ outcome = [st |-> "none", msg |-> <<>>, result |-> NoVal]
    /\ cause = NoCause
    /\ other \in {Fresh(c2, n2) : c2 \in SecondConfigs, n2 \in 1..MaxPairImages}
    /\ NormalizerIdle
    /\ EndpointIdle
    /\ AppIdle

\* the two invocations sharing one content array
SwitchSharingContent ==
    /\ who' = 3 - who
    /\ other' = Locals
    /\ cfg' = other.cfg
    /\ nFiles' = other.nFiles
    /\ pc' = other.pc
    /\ task' = other.task
    /\ requests' = other.requests
    /\ settled' = other.settled
    /\ reads' = other.reads
    /\ outcome' = other.outcome
    /\ cause' = other.cause
    /\ UNCHANGED <<content, envKey, nvars, uvars, avars>>

\* the running invocation is suspended at an await (or is over) and the
\* event loop runs a continuation of the other one: each keeps its locals
Switch ==
    /\ who' = 3 - who
    /\ other' = Locals
    /\ cfg' = other.cfg
    /\ nFiles' = other.nFiles
    /\ pc' = other.pc
    /\ task' = other.task
    /\ content' = other.content
    /\ requests' = other.requests
    /\ settled' = other.settled
    /\ reads' = other.reads
    /\ outcome' = other.outcome
    /\ cause' = other.cause
    /\ UNCHANGED <<envKey, nvars, uvars, avars>>

NextPair == Next \/ Switch

SpecPair == InitPair /\ [][NextPair]_vars

(***************************************************************************)
(* The App component (src/App.tsx).  A snapshot is an integer: the saved   *)
(* ones are -1 (the newest), -2, ..., the one of the k-th analysis that    *)
(* succeeds is k.  A handler runs to its end in one step; handleAnalyze is *)
(* suspended at its await and its history is the one of the render it was  *)
(* created in.                                                             *)
(***************************************************************************)
\* most calls of handleAnalyze
MaxRuns == 2

\* the entries of the history tab whose details are asked for: the first
\* MaxViewed
MaxViewed == 2

\* line 126
HistoryCap == 50

\* line 136
MsgAnalysisFailed == <<"Analysis failed, check the network or the image quality.">>

\* the messages of the errors analyzeFinancialScreenshots may throw
ErrMessages == {Absent, <<>>, MsgNetwork, MsgMissingKey}

Range(s) == {s[i] : i \in 1..Len(s)}

\* a saved history of n snapshots
Saved(n) == [i \in 1..n |-> 0 - i]

SavedHistories == {Saved(n) : n \in {0, 1, HistoryCap - 1, HistoryCap}}

\* a call of handleAnalyze
Run(at, hist, timer, data) ==
    [pc |-> at, hist |-> hist, timer |-> timer, data |-> data]

\* the history without the slice of line 126
NewHistoryNoCap(data, hist) == <<data>> \o hist

\* line 126: [data, ...history].slice(0, 50)
NewHistory(data, hist) == SubSeq(<<data>> \o hist, 1, Min({Len(hist) + 1, HistoryCap}))

\* line 180: the upload tab shows the dashboard
DashboardShown == activeTab = "upload" /\ status = "complete" /\ result # <<>>

\* lines 180-230: the upload tab shows the file picker
UploadShown == activeTab = "upload" /\ ~(status = "complete" /\ result # <<>>) /\ status # "analyzing"

\* lines 15-21 and 37-42: mounted, the history loaded from localStorage
InitApp ==
    /\ activeTab = "upload"
    /\ status = "idle"
    /\ files = 0
    /\ result = <<>>
    /\ \E h \in SavedHistories, present \in BOOLEAN :
          /\ present \/ h = <<>>
          /\ storage = Stored(present, h)
          /\ history = h
    /\ errorMsg = Null
    /\ runs = <<>>
    /\ InvocationIdle
    /\ NormalizerIdle
    /\ EndpointIdle
    /\ PairIdle

\* lines 153, 160: a tab is chosen
SetActiveTab(tab) ==
    /\ tab # activeTab
    /\ activeTab' = tab
    /\ UNCHANGED <<status, files, result, history, storage, errorMsg, runs, ivars, nvars, uvars, pvars>>

\* lines 51-56: an image is added
HandleFileSelection ==
    /\ UploadShown
    /\ files < MaxImages
    /\ files' = files + 1
    /\ errorMsg' = Null
    /\ UNCHANGED <<activeTab, status, result, history, storage, runs, ivars, nvars, uvars, pvars>>

\* line 247: the files are cleared
ClearFiles ==
    /\ UploadShown
    /\ files > 0
    /\ files' = 0
    /\ UNCHANGED <<activeTab, status, result, history, storage, errorMsg, runs, ivars, nvars, uvars, pvars>>

\* lines 87-121: handleAnalyze up to its await
HandleAnalyze ==
    /\ UploadShown
    /\ files > 0
    /\ Len(runs) < MaxRuns
    /\ status' = "analyzing"
    /\ errorMsg' = Null
    /\ runs' = Append(runs, Run("awaiting", history, TRUE, <<>>))
    /\ UNCHANGED <<activeTab, files, result, history, storage, ivars, nvars, uvars, pvars>>

\* lines 122-133: the analysis of run r returned
AnalysisSucceeded(r) ==
    /\ runs[r].pc = "awaiting"
    /\ LET data == 1 + Cardinality({q \in 1..Len(runs) : runs[q].pc \in {"delay", "done"}})
           newHistory == NewHistory(data, runs[r].hist)
       IN  /\ result' = <<data>>
           /\ history' = newHistory
           /\ storage' = Stored(TRUE, newHistory)
           /\ runs' = [runs EXCEPT ![r] = Run("delay", @.hist, FALSE, <<data>>)]
    /\ UNCHANGED <<activeTab, status, files, errorMsg, ivars, nvars, uvars, pvars>>

\* lines 131-133: the timeout of run r fires
CompleteTimeout(r) ==
    /\ runs[r].pc = "delay"
    /\ status' = "complete"
    /\ runs' = [runs EXCEPT ![r].pc = "done"]
    /\ UNCHANGED <<activeTab, files, result, history, storage, errorMsg, ivars, nvars, uvars, pvars>>

\* a catch block that also drops the result shown
AnalysisFailedDropsResult(r) ==
    /\ runs[r].pc = "awaiting"
    /\ \E m \in ErrMessages : errorMsg' = Or(m, MsgAnalysisFailed)
    /\ status' = "error"
    /\ result' = <<>>
    /\ runs' = [runs EXCEPT ![r] = Run("failed", @.hist, FALSE, <<>>)]
    /\ UNCHANGED <<activeTab, files, history, storage, ivars, nvars, uvars, pvars>>

\* lines 134-138: the analysis of run r threw
AnalysisFailed(r) ==
    /\ runs[r].pc = "awaiting"
    /\ \E m \in ErrMessages : errorMsg' = Or(m, MsgAnalysisFailed)
    /\ status' = "error"
    /\ runs' = [runs EXCEPT ![r] = Run("failed", @.hist, FALSE, <<>>)]
    /\ UNCHANGED <<activeTab, files, result, history, storage, ivars, nvars, uvars, pvars>>

\* line 188: the restart button of the dashboard
Restart ==
    /\ DashboardShown
    /\ status' = "idle"
    /\ files' = 0
    /\ result' = <<>>
    /\ UNCHANGED <<activeTab, history, storage, errorMsg, runs, ivars, nvars, uvars, pvars>>

\* line 343: the details button of the i-th entry of the history tab
ViewDetails(i) ==
    /\ activeTab = "history"
    /\ i \in 1..Len(history)
    /\ result' = <<history[i]>>
    /\ status' = "complete"
    /\ activeTab' = "upload"
    /\ UNCHANGED <<files, history, storage, errorMsg, runs, ivars, nvars, uvars, pvars>>

\* line 301: the clear button of the history tab, confirmed
ClearHistory ==
    /\ activeTab = "history"
    /\ history' = <<>>
    /\ storage' = Stored(FALSE, <<>>)
    /\ UNCHANGED <<activeTab, status, files, result, errorMsg, runs, ivars, nvars, uvars, pvars>>

NextApp ==
    \/ \E tab \in {"upload", "history", "privacy"} : SetActiveTab(tab)
    \/ HandleFileSelection
    \/ ClearFiles
    \/ HandleAnalyze
    \/ \E r \in 1..Len(runs) : AnalysisSucceeded(r)
    \/ \E r \in 1..Len(runs) : CompleteTimeout(r)
    \/ \E r \in 1..Len(runs) : AnalysisFailed(r)
    \/ Restart
    \/ \E i \in 1..MaxViewed : ViewDetails(i)
    \/ ClearHistory

SpecApp == InitApp /\ [][NextApp]_vars

(***************************************************************************)
(* Properties of one invocation of analyzeFinancialScreenshots.            *)
(***************************************************************************)
\* the positions in requests of the requests of a kind
ReqIdx(kind) == {j \in 1..Len(requests) : requests[j].kind = kind}

IsBlank(s) == \A i \in 1..Len(s) : s[i] \in WhiteSpace

\* a vision model name was configured
VisionSet == cfg.visionModelName # Absent /\ ~IsBlank(cfg.visionModelName)

NothingRead == reads = 0 /\ \A i \in 1..nFiles : task[i].st = "idle"

\* C1: with provider openai, once the call has been made with no base URL,
\* no model name or no resolvable API key, it has failed with the
\* configuration error of the first missing setting (key, then base URL,
\* then model name), no request was issued and no file was read.
C1_OpenAIConfigChecked ==
    (/\ cfg.provider = "openai"
     /\ pc # "start"
     /\ \/ ~Truthy(cfg.baseUrl)
        \/ ~Truthy(cfg.modelName)
        \/ ~Truthy(Or(cfg.apiKey, envKey)))
    => /\ pc = "failed"
       /\ outcome.st = "failed"
       /\ outcome.msg = IF ~Truthy(Or(cfg.apiKey, envKey)) THEN MsgMissingKey
                        ELSE IF ~Truthy(cfg.baseUrl) THEN MsgApiCall(MsgBaseUrlRequired)
                        ELSE MsgApiCall(MsgModelRequired)
       /\ requests = <<>>
       /\ NothingRead

\* an openai call with a key and a model name but an empty base URL has failed
C1_Witness ==
    /\ cfg.provider = "openai"
    /\ pc = "failed"
    /\ Truthy(Or(cfg.apiKey, envKey))
    /\ cfg.baseUrl = <<>>
    /\ Truthy(cfg.modelName)
    /\ outcome.msg = MsgApiCall(MsgBaseUrlRequired)
    /\ nFiles = 2

\* C2: for either provider, once the call has been made with neither
\* config.apiKey nor the default key present, it has failed with the
\* missing-credential error, no file was read and no request was issued.
C2_MissingCredential ==
    (pc # "start" /\ ~Truthy(cfg.apiKey) /\ ~Truthy(envKey))
    => /\ pc = "failed"
       /\ outcome = Thrown(MsgMissingKey)
       /\ requests = <<>>
       /\ NothingRead

\* a gemini call with an empty key and no default key has failed
C2_Witness ==
    /\ cfg.provider = "gemini"
    /\ cfg.apiKey = <<>>
    /\ envKey = Absent
    /\ pc = "failed"
    /\ outcome.msg = MsgMissingKey
    /\ nFiles = 2

\* C3: a successful openai invocation over N files has issued exactly one
\* request, the unified one, when no vision model name is configured, and
\* exactly N OCR requests, one per file, plus exactly one reasoning
\* request when one is.
C3_RequestsPerStrategy ==
    (cfg.provider = "openai" /\ pc = "done")
    => IF VisionSet
       THEN /\ Len(requests) = nFiles + 1
            /\ Cardinality(ReqIdx("reasoning")) = 1
            /\ \A i \in 1..nFiles :
                  Cardinality({j \in ReqIdx("ocr") : requests[j].idx = i}) = 1
       ELSE /\ Len(requests) = 1
            /\ requests[1].kind = "unified"

\* a successful Split invocation over two files, without a vision key
C3_Witness ==
    /\ cfg.provider = "openai"
    /\ pc = "done"
    /\ VisionSet
    /\ cfg.visionApiKey = Absent
    /\ nFiles = 2

\* C4: in Split mode, whenever an OCR task has failed the invocation has
\* failed, it returns no result, and no reasoning request has been issued,
\* whatever the other tasks do before or after.
C4_OneOcrFailureFailsAll ==
    (cfg.provider = "openai" /\ \E i \in 1..nFiles : task[i].st = "rejected")
    => /\ pc = "failed"
       /\ outcome.st = "failed"
       /\ outcome.result = NoVal
       /\ ReqIdx("reasoning") = {}

\* the second OCR task failed after the first one had succeeded
C4_Witness ==
    /\ cfg.provider = "openai"
    /\ nFiles >= 2
    /\ task[1].st = "fulfilled"
    /\ task[2].st = "rejected"
    /\ Len(requests) = 2

\* C5: in Split mode at most one reasoning request is ever issued; it has
\* been issued exactly when every OCR task has succeeded, and it comes after
\* all N OCR requests.
C5_ReasoningAfterAllOcr ==
    cfg.provider = "openai"
    => /\ Cardinality(ReqIdx("reasoning")) <= 1
       /\ ReqIdx("reasoning") # {}
             <=> (pc \notin {"start", "unifiedRead", "unified"} /\ VisionSet
                  /\ \A i \in 1..nFiles : task[i].st = "fulfilled")
       /\ \A j \in ReqIdx("reasoning") : j = nFiles + 1
       /\ pc = "reasoning" => ReqIdx("reasoning") # {}

\* the reasoning request is in flight after two OCR calls
C5_Witness ==
    /\ cfg.provider = "openai"
    /\ pc = "reasoning"
    /\ nFiles >= 2
    /\ ReqIdx("reasoning") # {}

\* C6: the transcript of the reasoning request has one entry per file, in
\* file order: entry i carries header i and the text the OCR task of file i
\* got, whatever the order the OCR tasks completed in.
C6_TranscriptInIndexOrder ==
    \A j \in ReqIdx("reasoning") :
        /\ Len(requests[j].transcript) = nFiles
        /\ \A i \in 1..nFiles :
              /\ requests[j].transcript[i].hdr = i
              /\ requests[j].transcript[i].text = task[i].val.text

\* the reasoning request was issued after file 2 completed before file 1,
\* with different texts
C6_Witness ==
    /\ ReqIdx("reasoning") # {}
    /\ nFiles = 2
    /\ settled = <<2, 1>>
    /\ task[1].val.text # task[2].val.text

(***************************************************************************)
(* Properties of the endpoint rule.                                        *)
(***************************************************************************)
\* the number of places p occurs at in s
Count(s, p) ==
    Cardinality({i \in 1..(Len(s) - Len(p) + 1) : SubSeq(s, i, i + Len(p) - 1) = p})

RECURSIVE TrimSlashes(_)
\* s without its trailing slashes
TrimSlashes(s) ==
    IF s # <<>> /\ s[Len(s)] = "/" THEN TrimSlashes(SubSeq(s, 1, Len(s) - 1)) ELSE s

\* the base URL holds the completions path nowhere, or once at its end,
\* trailing slashes aside
PathOnlyAtEnd(u) ==
    \/ Count(u, ChatCompletions) = 0
    \/ Count(u, ChatCompletions) = 1 /\ EndsWith(TrimSlashes(u), ChatCompletions)

\* C7: for every base URL (taken here among those that hold the
\* completions path nowhere, or once at their end before any trailing
\* slashes) the resolved URL ends with /chat/completions, has no trailing
\* slash, and holds that path exactly once.
C7_PathExactlyOnce ==
    (upc = "resolved" /\ PathOnlyAtEnd(ubase))
    => /\ EndsWith(uout, ChatCompletions)
       /\ uout[Len(uout)] # "/"
       /\ Count(uout, ChatCompletions) = 1

(***************************************************************************)
(* Properties of the normalizer.                                           *)
(***************************************************************************)
\* C8: when the text has a { before its last }, parseJSON gives what
\* JSON.parse gives on the part of the text from its first { to its last },
\* whatever stands before and after.
C8_ParsesBraceSpan ==
    (/\ npc = "parsed"
     /\ IndexOf(ntext, "{") # -1
     /\ LastIndexOf(ntext, "}") > IndexOf(ntext, "{"))
    => nout = JSONparse(SubSeq(ntext, IndexOf(ntext, "{") + 1, LastIndexOf(ntext, "}") + 1))

\* prose, a fenced object with an object nested in it, prose: parsed to an
\* object
C8_Witness ==
    /\ npc = "parsed"
    /\ nsrc = NoVal
    /\ StartsWith(ntext, <<"H", "i", ":", "\n">> \o FenceJson)
    /\ EndsWith(ntext, Fence \o <<"\n", "o", "k">>)
    /\ Count(ntext, <<"{">>) >= 2
    /\ nout.ok
    /\ nout.v.k = "object"

\* C9: for every schema-valid result r, parseJSON of the serialized r, bare
\* or wrapped in a json fence or in a plain fence, succeeds with a value equal to r.
C9_RoundTrip ==
    (npc = "parsed" /\ nsrc # NoVal) => (nout.ok /\ nout.v = nsrc)

\* a fenced result whose texts are themselves a fence marker, with an item
\* and an alert, parsed
C9_Witness ==
    /\ npc = "parsed"
    /\ nsrc # NoVal
    /\ StartsWith(ntext, FenceJson)
    /\ Count(ntext, Fence) >= 4
    /\ Count(ntext, K_description) = 1
    /\ nout.ok

\* C10: whenever parseJSON returns, the value is an object.
C10_OnlyObjects ==
    (npc = "parsed" /\ nout.ok) => nout.v.k = "object"

(***************************************************************************)
(* Properties of the failures of an invocation.                            *)
(***************************************************************************)
\* the messages an answer without content is reported with (lines 358, 459,
\* 489, each re-raised by line 525)
EmptyResponseMsgs == {MsgApiCall(MsgNoData), MsgApiCall(MsgNoLogicContent), MsgApiCall(MsgNoContent)}

\* C11: an answer without content to the Gemini, the Unified or the
\* reasoning request makes the invocation fail with the empty-response
\* error, and so does an answer without content to an OCR request: no
\* reasoning request is built from it.
C11_EmptyResponseFails ==
    /\ cause.kind = "empty" => (outcome.st = "failed" /\ outcome.msg \in EmptyResponseMsgs)
    /\ \A i \in 1..nFiles :
          (cfg.provider = "openai" /\ task[i].st = "fulfilled" /\ task[i].val.text = Absent)
          => (ReqIdx("reasoning") = {} /\ (pc = "failed" => outcome.msg \in EmptyResponseMsgs))

\* line 218 (the earlier version of the catch block): the rate-limit message
MsgRateLimit == <<"Too many requests, retry later.">>

\* C12: a failure of an OpenAI-compatible backend with HTTP status 429 is
\* re-raised with the rate-limit message, and one with HTTP status 403 with
\* the quota/permission message.
C12_RateLimitAndQuota ==
    cfg.provider = "openai"
    => /\ (cause.kind = "http" /\ cause.status = <<"4", "2", "9">>) => outcome.msg = MsgRateLimit
       /\ (cause.kind = "http" /\ cause.status = <<"4", "0", "3">>) => outcome.msg = MsgQuota

\* C13: the message of a non-2xx answer of an OpenAI-compatible backend
\* depends on its status alone: a status other than 401, 403, 404 and 429
\* gives the generic API-call message followed by the raw message, and a
\* 404 gives the wrong-path message, whatever the body of the answer is.
C13_ClassifiedByStatus ==
    (cfg.provider = "openai" /\ cause.kind = "http")
    => /\ cause.status \notin {<<"4", "0", "1">>, <<"4", "0", "3">>, <<"4", "0", "4">>, <<"4", "2", "9">>}
             => /\ StartsWith(outcome.msg, MsgApiCall(<<>>))
                /\ EndsWith(outcome.msg, HttpError(cause.status, cause.text).message)
       /\ cause.status = <<"4", "0", "4">> => outcome.msg = MsgNotFound

Member(v, name) ==
    IF v.k = "object" /\ \E i \in 1..Len(v.n) : v.n[i] = name
    THEN v.c[CHOOSE i \in 1..Len(v.n) : v.n[i] = name]
    ELSE NoVal

\* a number between 0 and 1, from its canonical digits
InUnitRange(v) ==
    /\ v.k = "number"
    /\ \/ v.s \in {<<"0">>, <<"1">>}
       \/ Len(v.s) >= 3 /\ v.s[1] = "0" /\ v.s[2] = "."

Ratios == {K_stockConcentration, K_entityConcentration, K_cashRatio}

\* C15: no result returned (here: on the OpenAI-compatible path) has a
\* stockConcentration, entityConcentration or cashRatio outside [0,1].
C15_RatiosInUnitRange ==
    (cfg.provider = "openai" /\ pc = "done")
    => \A name \in Ratios :
          LET ratio == Member(Member(outcome.result, K_riskMetrics), name)
          IN  ratio = NoVal \/ InUnitRange(ratio)

\* C16: every breakdown item of a result returned (here: on the
\* OpenAI-compatible path) has its type in AssetType and its macroCategory
\* in MacroCategory.
C16_EnumsClosed ==
    (cfg.provider = "openai" /\ pc = "done")
    => LET breakdown == Member(outcome.result, K_breakdown)
       IN  \A i \in 1..Len(breakdown.c) :
              LET type == Member(breakdown.c[i], K_type)
                  macro == Member(breakdown.c[i], K_macroCategory)
              IN  /\ type = NoVal \/ (type.k = "string" /\ type.s \in AssetType)
                  /\ macro = NoVal \/ (macro.k = "string" /\ macro.s \in MacroCategory)

\* C17: every result object returned (here: on the OpenAI-compatible path)
\* carries an id.
C17_ResultHasId ==
    (cfg.provider = "openai" /\ pc = "done" /\ outcome.result.k = "object")
    => Member(outcome.result, K_id) # NoVal

(***************************************************************************)
(* Properties of read failures and of OCR failures.                        *)
(***************************************************************************)
\* C18: when the read of a file fails, the invocation fails with a message
\* of its own, not with the generic analysis-failed message.
C18_ReadErrorDistinct ==
    cause.kind = "read" => (outcome.st = "failed" /\ outcome.msg # MsgGeneric)

\* the decimal digit n
DigitOf(n) == <<"0", "1", "2", "3", "4", "5", "6", "7", "8", "9">>[n + 1]

\* C19: in Split mode, when the OCR request of file i fails, the message
\* raised to the caller names the position of the file, counted from 1 or
\* from 0.
C19_OcrErrorNamesImage ==
    (cfg.provider = "openai" /\ cause.kind \in {"http", "network"} /\ cause.idx > 0)
    => \/ Includes(outcome.msg, <<DigitOf(cause.idx)>>)
       \/ Includes(outcome.msg, <<DigitOf(cause.idx - 1)>>)

(***************************************************************************)
(* Properties of the endpoints and keys of Split mode.                     *)
(***************************************************************************)
\* the primary key: the per-call key, else the process default
PrimaryKey == IF Truthy(cfg.apiKey) THEN cfg.apiKey ELSE envKey

\* C20: every OCR request goes to visionBaseUrl if set, else to baseUrl,
\* with visionApiKey if set, else the primary key; the reasoning request
\* goes to baseUrl with the primary key.
C20_VisionFallback ==
    /\ \A j \in ReqIdx("ocr") :
          /\ requests[j].url =
                CleanEndpoint(IF Truthy(cfg.visionBaseUrl) THEN cfg.visionBaseUrl ELSE cfg.baseUrl)
          /\ requests[j].key = IF Truthy(cfg.visionApiKey) THEN cfg.visionApiKey ELSE PrimaryKey
    /\ \A j \in ReqIdx("reasoning") :
          /\ requests[j].url = CleanEndpoint(cfg.baseUrl)
          /\ requests[j].key = PrimaryKey

\* OCR and reasoning requests were sent with a vision endpoint but no vision
\* key, the primary key being the process default
C20_Witness ==
    /\ ReqIdx("reasoning") # {}
    /\ ReqIdx("ocr") # {}
    /\ cfg.visionBaseUrl = <<"g">>
    /\ cfg.visionApiKey = Absent
    /\ cfg.apiKey = <<>>
    /\ envKey = <<"e">>
    /\ requests[1].key = <<"e">>
    /\ requests[1].url # requests[Len(requests)].url

(***************************************************************************)
(* Properties of the effective key.                                        *)
(***************************************************************************)
\* C21: every request other than an OCR request authenticates with the
\* per-call key when one is supplied and with the process-wide default key
\* otherwise; an OCR request authenticates with the vision key when there is
\* one and with that same effective key otherwise; the default key is used
\* by no request when a per-call key is supplied.
C21_EffectiveKey ==
    \A j \in 1..Len(requests) :
        /\ requests[j].kind # "ocr"
              => requests[j].key = (IF Truthy(cfg.apiKey) THEN cfg.apiKey ELSE envKey)
        /\ requests[j].kind = "ocr"
              => requests[j].key \in {cfg.visionApiKey, IF Truthy(cfg.apiKey) THEN cfg.apiKey ELSE envKey}
        /\ Truthy(cfg.apiKey) => requests[j].key # envKey

\* a Gemini request sent with the per-call key while a default key exists
C21_Witness ==
    /\ cfg.provider = "gemini"
    /\ cfg.apiKey = <<"k">>
    /\ envKey = <<"e">>
    /\ Len(requests) = 1
    /\ requests[1].key = <<"k">>

(***************************************************************************)
(* Properties of the catch block.                                          *)
(***************************************************************************)
\* the messages of the four patterns of lines 516-523
PatternMsgs == {MsgAuth, MsgQuota, MsgNetwork, MsgNotFound}

\* C24: an error matching no pattern is re-raised with the API-call message
\* followed by its own message when it has one (content that does not
\* parse, an answer without content, a configuration error) and with the
\* plain generic message when it has none (a failed read); every failure
\* after the credential check carries a pattern message, the API-call
\* message or the generic message, and no result.
C24_UnmatchedErrors ==
    /\ cause.kind = "syntax" => outcome.msg = MsgApiCall(SyntaxError.message)
    /\ cause.kind = "empty" => outcome.msg \in EmptyResponseMsgs
    /\ (cause.kind = "config" /\ outcome.msg # MsgMissingKey)
          => outcome.msg \in {MsgApiCall(MsgBaseUrlRequired), MsgApiCall(MsgModelRequired)}
    /\ cause.kind = "read" => outcome.msg = MsgGeneric
    /\ (pc = "failed" /\ outcome.msg # MsgMissingKey)
          => /\ outcome.st = "failed"
             /\ outcome.result = NoVal
             /\ \/ outcome.msg \in PatternMsgs \cup {MsgGeneric}
                \/ StartsWith(outcome.msg, MsgApiCall(<<>>)) /\ Len(outcome.msg) > 1

\* the reasoning answer of a Split invocation over two files did not parse
C24_Witness ==
    /\ cfg.provider = "openai"
    /\ pc = "failed"
    /\ nFiles = 2
    /\ ReqIdx("reasoning") # {}
    /\ cause.kind = "syntax"
    /\ outcome.msg = MsgApiCall(<<"Unexpected token">>)

(***************************************************************************)
(* Properties of the parts of a request.                                   *)
(***************************************************************************)
\* the image parts of the files 1..n in the caller's order
InOrder(n) == [i \in 1..n |-> i]

\* C25: the Unified request's content is the text part followed by the
\* image parts of all the files in the caller's order, each once (and what
\* is pushed before the request is a prefix of that); the Gemini request
\* carries the image parts in the caller's order, each once.
C25_PartsInCallerOrder ==
    /\ pc = "unifiedRead" => content = <<TextPart>> \o InOrder(Len(content) - 1)
    /\ \A j \in 1..Len(requests) :
          /\ requests[j].kind = "unified"
                => requests[j].images = <<TextPart>> \o InOrder(nFiles)
          /\ requests[j].kind = "gemini"
                => requests[j].images = InOrder(nFiles) \o <<TextPart>>

\* the Unified request over two files has been sent
C25_Witness ==
    /\ nFiles = 2
    /\ pc = "unified"
    /\ ReqIdx("unified") # {}
    /\ \E j \in ReqIdx("unified") : Len(requests[j].images) = 3

(***************************************************************************)
(* Properties of the choice of strategy.                                   *)
(***************************************************************************)
\* the Split path was entered: the OCR tasks of lines 420-442 exist
SplitTaken == \E i \in DOMAIN task : task[i].st # "idle"

\* the Unified path was entered: the content array of line 466 exists
UnifiedTaken == content # <<>>

\* C26: an openai invocation that passed the configuration checks took the
\* Split path if and only if visionModelName is set and holds a character
\* that is no whitespace, and the Unified path if and only if it did not
\* (unset, empty or whitespace only).
C26_SplitIffVisionModel ==
    (cfg.provider = "openai" /\ pc # "start" /\ cause.kind # "config")
    => LET named == cfg.visionModelName # Absent /\ ~IsBlank(cfg.visionModelName)
       IN  /\ SplitTaken <=> named
           /\ UnifiedTaken <=> ~named
           /\ named => ReqIdx("unified") = {}
           /\ ~named => ReqIdx("ocr") = {} /\ ReqIdx("reasoning") = {}

\* with a vision model name of one space the Unified request was sent
C26_Witness ==
    /\ cfg.provider = "openai"
    /\ cfg.visionModelName = <<" ">>
    /\ nFiles = 2
    /\ pc = "unified"
    /\ UnifiedTaken
    /\ ReqIdx("unified") # {}

(***************************************************************************)
(* Properties of two concurrent invocations.                               *)
(***************************************************************************)
\* the requests of the invocation with locals L are built from its own
\* configuration and files: the strategy, the models and the image parts
OwnRequests(L) ==
    \A j \in 1..Len(L.requests) :
        LET r == L.requests[j]
        IN  /\ r.kind = "gemini"
                  => /\ L.cfg.provider = "gemini"
                     /\ r.images = InOrder(L.nFiles) \o <<TextPart>>
            /\ r.kind = "unified"
                  => /\ L.cfg.provider = "openai" /\ L.cfg.visionModelName = Absent
                     /\ r.model = L.cfg.modelName
                     /\ r.images = <<TextPart>> \o InOrder(L.nFiles)
            /\ r.kind = "ocr"
                  => /\ L.cfg.visionModelName # Absent
                     /\ r.model = L.cfg.visionModelName
                     /\ r.idx \in 1..L.nFiles
                     /\ r.images = <<TextPart, r.idx>>
            /\ r.kind = "reasoning"
                  => /\ L.cfg.visionModelName # Absent
                     /\ r.model = L.cfg.modelName
                     /\ Len(r.transcript) = L.nFiles
                     /\ \A i \in 1..L.nFiles : r.transcript[i] = L.task[i].val

\* a step of the running invocation leaves the suspended one's locals as
\* they are, a switch leaves both invocations' locals as they are, and no
\* step writes process.env
NoInterference ==
    /\ envKey' = envKey
    /\ who' = who => other' = other
    /\ who' # who => other' = Locals /\ Locals' = other

\* C22: under every interleaving of two invocations, each step changes the
\* locals of the invocation that takes it and nothing of the other, so each
\* one's requests and outcome come from its own files, its own
\* configuration and the answers to its own requests.
C22_NoInterference ==
    /\ [](who \in {1, 2} => OwnRequests(Locals) /\ OwnRequests(other))
    /\ [][NoInterference]_vars

\* both invocations are over, the first (Split) failed and the second
\* (Unified) returned a result
C22_Witness ==
    /\ who = 2
    /\ cfg = PairConfig("openai", Absent)
    /\ pc = "done"
    /\ requests # <<>>
    /\ other.cfg = PairConfig("openai", <<"v">>)
    /\ other.pc = "failed"
    /\ other.requests # <<>>

(***************************************************************************)
(* Properties of the invocation's progress.                                *)
(***************************************************************************)
\* the phase an invocation is in: 0 preparing (before the call, reading
\* files), 1 calling (a request of its own flow, or its OCR sub-calls, is
\* awaited), 2 over; normalizing is the end of the step that takes the
\* answer
Phase(p) ==
    CASE p \in {"start", "unifiedRead", "geminiRead"} -> 0
      [] p \in {"ocr", "reasoning", "unified", "gemini"} -> 1
      [] p \in {"done", "failed"} -> 2

\* the invocation is over with exactly one of a result and an error
Terminal ==
    \/ pc = "done" /\ outcome.st = "done" /\ outcome.msg = <<>>
    \/ pc = "failed" /\ outcome.st = "failed" /\ outcome.msg # <<>> /\ outcome.result = NoVal

\* C23: with every read and every request eventually completed or failed,
\* the invocation eventually is over, with a result or with an error and
\* never both; until then it has neither; its outcome never changes once
\* it has one; the phases are passed in the order preparing, calling, over,
\* and a result is only returned out of the calling phase.
C23_OneTerminalOutcome ==
    /\ <>Terminal
    /\ [](pc \in {"done", "failed"} => Terminal)
    /\ [](pc \notin {"done", "failed"} => outcome.st = "none")
    /\ [][/\ Phase(pc') >= Phase(pc)
          /\ pc \in {"done", "failed"} => pc' = pc /\ outcome' = outcome
          /\ (pc' = "done" /\ pc # "done") => Phase(pc) = 1]_vars

\* a Split invocation over two files is over with a result, every OCR
\* task settled
C23_Witness ==
    /\ cfg.provider = "openai"
    /\ nFiles = 2
    /\ pc = "done"
    /\ Len(settled) = 2
    /\ outcome.st = "done"

(***************************************************************************)
(* Properties of the App component.                                        *)
(***************************************************************************)
\* run r's analysis returns in this step
Succeeds(r) == runs[r].pc = "awaiting" /\ runs'[r].pc = "delay"

\* run r's analysis throws in this step
Fails(r) == runs[r].pc = "awaiting" /\ runs'[r].pc = "failed"

\* C27: from a cleared history (no entry in memory, no item in
\* localStorage) a step brings into the history and into localStorage no
\* snapshot but the one of the analysis that returns in that step.
C27_ClearedStaysCleared ==
    [][(history = <<>> /\ ~storage.present)
          => \A x \in Range(history') \cup Range(storage'.v) :
                \E r \in 1..Len(runs) : Succeeds(r) /\ runs'[r].data = <<x>>]_vars

\* C28: whenever status is 'complete', result is not null.
C28_CompleteHasResult == status = "complete" => result # <<>>

\* newest first: each snapshot is newer than the one after it
NewestFirst(h) == \A i \in 1..(Len(h) - 1) : h[i] > h[i + 1]

\* C29: the history and the stored item never hold more than 50 snapshots
\* and are ordered newest first; an analysis that returns puts its snapshot
\* at index 0 and, the history being the one it was started with, keeps
\* the entries before it in their order up to 50 in all, dropping the
\* oldest beyond.
C29_HistoryCapped ==
    /\ [](/\ Len(history) <= HistoryCap
          /\ NewestFirst(history)
          /\ Len(storage.v) <= HistoryCap
          /\ storage.v = history)
    /\ [][\A r \in 1..Len(runs) :
             Succeeds(r)
             => /\ history'[1] = runs'[r].data[1]
                /\ \A x \in Range(history) : history'[1] > x
                /\ runs[r].hist = history
                      => /\ Len(history') = IF Len(history) < HistoryCap
                                            THEN Len(history) + 1 ELSE HistoryCap
                         /\ \A i \in 2..Len(history') : history'[i] = history[i - 1]]_vars

\* two analyses returned one after the other on a full history: their
\* snapshots lead and the two oldest saved ones are gone
C29_Witness ==
    /\ Len(history) = HistoryCap
    /\ history[1] = 2
    /\ history[2] = 1
    /\ history[3] = 0 - 1
    /\ history[HistoryCap] = 2 - HistoryCap
    /\ storage = Stored(TRUE, history)

\* C30: a step in which an analysis fails sets status to 'error' and
\* errorMsg to a non-empty text, clears that run's timer and leaves
\* result, history and localStorage as they are; a failed run takes no
\* further step, and status only becomes 'complete' by the timeout of a run
\* that succeeded or by the details button.
C30_FailureFrame ==
    [][/\ \A r \in 1..Len(runs) :
             /\ Fails(r) => /\ status' = "error"
                            /\ errorMsg' \notin {Null, Absent, <<>>}
                            /\ ~runs'[r].timer
                            /\ result' = result
                            /\ history' = history
                            /\ storage' = storage
             /\ runs[r].pc = "failed" => runs'[r] = runs[r]
       /\ (status' = "complete" /\ status # "complete")
             => \/ \E r \in 1..Len(runs) : runs[r].pc = "delay" /\ runs'[r].pc = "done"
                \/ activeTab = "history" /\ result' # <<>>]_vars

\* an analysis failed with an error without message while an earlier
\* snapshot was on display: the snapshot and the history are still there
C30_Witness ==
    /\ status = "error"
    /\ errorMsg = MsgAnalysisFailed
    /\ result # <<>>
    /\ history # <<>>
    /\ \E r \in 1..Len(runs) : runs[r].pc = "failed" /\ ~runs[r].timer

=============================================================================
